---- MODULE Spec2Model ----
(***************************************************************************)
(* Model of the Cuckoo metrics client of caladrius                         *)
(* (src/metrics/heron/cuckoo/client.py): the time-window resolver          *)
(* _query_setup, the query executor HeronCuckooClient.query, the decoder   *)
(* parse_metric_details and the six get_* extractors.                      *)
(* HeronCuckooClient.__eq__ and __hash__, and of the request handler        *)
(* HeronCurrent.get of the modelling API (src/api/model/topology/heron.py). *)
(*                                                                         *)
(* Python values are represented as follows.                               *)
(*   str       a sequence of one-character strings, so that split() and    *)
(*             the "in" substring test are computed, not assumed;          *)
(*   Optional  <<>> for None, <<v>> for a value v;                         *)
(*   dict      a function from key strings to values;                      *)
(*   number    a data-point value is a rational [num, den] in lowest       *)
(*             terms with den > 0;                                         *)
(*   datetime  a whole number of ticks since the epoch, TicksPerSecond     *)
(*             ticks to the second;                                        *)
(*   a call that may raise returns [ok |-> TRUE, value |-> v] or           *)
(*             [ok |-> FALSE, exc |-> "<exception class>"].                *)
(***************************************************************************)
EXTENDS Integers, Sequences, FiniteSets, TLC

\* ------------------------------------------------------------------ bounds

\* Longest "timeseries" list the backend answers with.
MaxEntries == 3

\* Resolution of a datetime: ticks per second.
TicksPerSecond == 4

\* ------------------------------------------------------- Python primitives

None == <<>>

Some(v) == <<v>>

Ok(v) == [ok |-> TRUE, value |-> v]

Raise(e) == [ok |-> FALSE, exc |-> e]

RECURSIVE Gcd(_, _)
Gcd(a, b) == IF b = 0 THEN a ELSE Gcd(b, a % b)

\* A rational in lowest terms (n any integer, d > 0).
Rat(n, d) ==
  LET g == Gcd(IF n < 0 THEN -n ELSE n, d)
  IN  IF n = 0 THEN [num |-> 0, den |-> 1] ELSE [num |-> n \div g, den |-> d \div g]

\* Python's true division of a number by a positive int.
TrueDiv(v, k) == Rat(v.num, v.den * k)

\* Python's int(x) of a number: truncation toward zero.
IntOfNumber(v) ==
  IF v.num >= 0 THEN v.num \div v.den ELSE -((-v.num) \div v.den)

\* Python's round(x) of a non-negative number n/d: to nearest, ties to even.
RoundHalfEven(n, d) ==
  LET q == n \div d
      r == n % d
  IN  IF 2 * r < d THEN q
      ELSE IF 2 * r > d THEN q + 1
      ELSE IF q % 2 = 0 THEN q ELSE q + 1

\* str.split(sep) for a one-character separator: the list of the segments
\* between separators, empty segments kept, so never an empty list.
RECURSIVE Split(_, _)
Split(s, sep) ==
  IF \A i \in 1..Len(s) : s[i] # sep THEN <<s>>
  ELSE LET k == CHOOSE i \in 1..Len(s) :
                  s[i] = sep /\ \A j \in 1..(i - 1) : s[j] # sep
       IN  <<SubSeq(s, 1, k - 1)>> \o Split(SubSeq(s, k + 1, Len(s)), sep)

\* The test "sub in s" on strings.
Contains(s, sub) ==
  \E i \in 0..(Len(s) - Len(sub)) : SubSeq(s, i + 1, i + Len(sub)) = sub

Digits == <<"0", "1", "2", "3", "4", "5", "6", "7", "8", "9">>

DigitValue(ch) == (CHOOSE i \in 1..10 : Digits[i] = ch) - 1

IsDigit(ch) == \E i \in 1..10 : Digits[i] = ch

RECURSIVE DecimalValue(_)
DecimalValue(s) ==
  IF s = <<>> THEN 0
  ELSE 10 * DecimalValue(SubSeq(s, 1, Len(s) - 1)) + DigitValue(s[Len(s)])

\* int(s) of a string: the strings of the model carry no sign, blank or
\* digit separator, so int() succeeds exactly on non-empty digit strings.
IntOfStr(s) ==
  IF s # <<>> /\ \A i \in 1..Len(s) : IsDigit(s[i])
  THEN Ok(DecimalValue(s))
  ELSE Raise("ValueError")

\* dt.datetime.utcfromtimestamp(seconds)
utcfromtimestamp(seconds) == seconds * TicksPerSecond

\* ---------------------------------------------------------------- strings

SysMarker == <<"_", "_">>

ReceivedPacketsCount ==
  <<"r", "e", "c", "e", "i", "v", "e", "d", "-", "p", "a", "c", "k", "e", "t",
    "s", "-", "c", "o", "u", "n", "t">>

ReceiveCount ==
  <<"r", "e", "c", "e", "i", "v", "e", "-", "c", "o", "u", "n", "t">>

EmitCount == <<"e", "m", "i", "t", "-", "c", "o", "u", "n", "t">>

CompleteLatency ==
  <<"c", "o", "m", "p", "l", "e", "t", "e", "-", "l", "a", "t", "e", "n", "c",
    "y">>

ExecuteLatency ==
  <<"e", "x", "e", "c", "u", "t", "e", "-", "l", "a", "t", "e", "n", "c", "y">>

ExecuteCount ==
  <<"e", "x", "e", "c", "u", "t", "e", "-", "c", "o", "u", "n", "t">>

Gateway == <<"g", "a", "t", "e", "w", "a", "y", "-">>

\* ---------------------------------------------------- parse_metric_details

\* parse_metric_details, first half: the instance reference read from
\* details["sources"][0].  A list index past the end raises IndexError, int()
\* of a non-number ValueError, in the order of the statements.  Python indexes
\* from 0, TLA+ from 1: the source's ref_list[1] is ref_list[2] here.
InstanceDetails(details) ==
  LET ref_list == Split(details.sources[1], "/")
  IN
  IF Len(ref_list) < 3 THEN Raise("IndexError")
  ELSE
  LET component == ref_list[2]
      instance_list == Split(ref_list[3], "_")
  IN
  IF Len(instance_list) < 2 THEN Raise("IndexError")
  ELSE IF ~IntOfStr(instance_list[2]).ok THEN Raise("ValueError")
  ELSE IF Len(instance_list) < 4 THEN Raise("IndexError")
  ELSE IF ~IntOfStr(instance_list[4]).ok THEN Raise("ValueError")
  ELSE Ok([container |-> IntOfStr(instance_list[2]).value,
           component |-> component,
           task |-> IntOfStr(instance_list[4]).value])

\* MetricDetails with the test for "emit-count" and "complete-latency" made
\* before the test for "receive-count".
MetricDetailsEmitFirst(instance_details, metrics_list) ==
  IF Contains(metrics_list[1], ReceivedPacketsCount) THEN Ok(instance_details)
  ELSE IF \/ Contains(metrics_list[1], EmitCount)
          \/ Contains(metrics_list[1], CompleteLatency) THEN
    IF Len(metrics_list) < 2 THEN Raise("IndexError")
    ELSE Ok(instance_details @@ [stream |-> metrics_list[2]])
  ELSE IF Contains(metrics_list[1], ReceiveCount) THEN
    IF Len(metrics_list) < 3 THEN Raise("IndexError")
    ELSE IF ~IntOfStr(metrics_list[3]).ok THEN Raise("ValueError")
    ELSE IF Len(metrics_list) < 4 THEN Raise("IndexError")
    ELSE Ok(instance_details @@
            [source_component |-> metrics_list[2],
             source_task |-> IntOfStr(metrics_list[3]).value,
             stream |-> metrics_list[4]])
  ELSE
    IF Len(metrics_list) < 3 THEN Raise("IndexError")
    ELSE Ok(instance_details @@
            [source_component |-> metrics_list[2],
             stream |-> metrics_list[3]])

\* MetricDetails without the branch of "received-packets-count".
MetricDetailsNoPacketsBranch(instance_details, metrics_list) ==
  IF Contains(metrics_list[1], ReceiveCount) THEN
    IF Len(metrics_list) < 3 THEN Raise("IndexError")
    ELSE IF ~IntOfStr(metrics_list[3]).ok THEN Raise("ValueError")
    ELSE IF Len(metrics_list) < 4 THEN Raise("IndexError")
    ELSE Ok(instance_details @@
            [source_component |-> metrics_list[2],
             source_task |-> IntOfStr(metrics_list[3]).value,
             stream |-> metrics_list[4]])
  ELSE IF \/ Contains(metrics_list[1], EmitCount)
          \/ Contains(metrics_list[1], CompleteLatency) THEN
    IF Len(metrics_list) < 2 THEN Raise("IndexError")
    ELSE Ok(instance_details @@ [stream |-> metrics_list[2]])
  ELSE
    IF Len(metrics_list) < 3 THEN Raise("IndexError")
    ELSE Ok(instance_details @@
            [source_component |-> metrics_list[2],
             stream |-> metrics_list[3]])

\* parse_metric_details, second half: the fields added according to the
\* first segment of details["metrics"][0].
MetricDetails(instance_details, metrics_list) ==
  IF Contains(metrics_list[1], ReceivedPacketsCount) THEN Ok(instance_details)
  ELSE IF Contains(metrics_list[1], ReceiveCount) THEN
    IF Len(metrics_list) < 3 THEN Raise("IndexError")
    ELSE IF ~IntOfStr(metrics_list[3]).ok THEN Raise("ValueError")
    ELSE IF Len(metrics_list) < 4 THEN Raise("IndexError")
    ELSE Ok(instance_details @@
            [source_component |-> metrics_list[2],
             source_task |-> IntOfStr(metrics_list[3]).value,
             stream |-> metrics_list[4]])
  ELSE IF \/ Contains(metrics_list[1], EmitCount)
          \/ Contains(metrics_list[1], CompleteLatency) THEN
    IF Len(metrics_list) < 2 THEN Raise("IndexError")
    ELSE Ok(instance_details @@ [stream |-> metrics_list[2]])
  ELSE
    IF Len(metrics_list) < 3 THEN Raise("IndexError")
    ELSE Ok(instance_details @@
            [source_component |-> metrics_list[2],
             stream |-> metrics_list[3]])

\* parse_metric_details(details)
parse_metric_details(details) ==
  LET instance_details == InstanceDetails(details)
  IN  IF ~instance_details.ok THEN instance_details
      ELSE MetricDetails(instance_details.value,
                         Split(details.metrics[1], "/"))

\* --------------------------------------------------------------- constants

\* PERIOD: the module-level dict from granularity to seconds.
PERIOD == [m |-> 60, h |-> 3600, d |-> 86400]

\* The divisor of the two latency extractors (nanoseconds to milliseconds).
NanosPerMilli == 1000000

ExtractorKinds ==
  {"service_times", "execute_counts", "emit_counts", "receive_counts",
   "complete_latencies", "arrival_rates"}

\* The metric pattern, the aggregation and the query name each extractor
\* passes to query().
QueryTable ==
  [service_times      |-> [agg |-> "avg", metric |-> "__execute-latency/*/*",
                           name |-> "execute latency"],
   execute_counts     |-> [agg |-> "sum", metric |-> "__execute-count/*/*",
                           name |-> "execute count"],
   emit_counts        |-> [agg |-> "sum", metric |-> "__emit-count/*",
                           name |-> "emit counts"],
   receive_counts     |-> [agg |-> "", metric |-> "receive-count/*/*/*",
                           name |-> "receive-counts"],
   complete_latencies |-> [agg |-> "avg", metric |-> "__complete-latency/*",
                           name |-> "complete latency"],
   arrival_rates      |-> [agg |-> "sum",
                           metric |-> "__gateway-received-packets-count",
                           name |-> "instance arrival counts"]]

\* The f-string each extractor builds: ts(<agg>, heron/<topology>, /*/*, <metric>)
QueryStr(kind, topology_id) ==
  [agg |-> QueryTable[kind].agg, service |-> <<"heron", topology_id>>,
   sources |-> "/*/*", metric |-> QueryTable[kind].metric]

\* The keys of the decoded details each extractor reads to build a row.
DetailKeys ==
  [service_times      |-> {"component", "task", "container",
                           "source_component", "stream"},
   execute_counts     |-> {"component", "task", "container",
                           "source_component", "stream"},
   emit_counts        |-> {"component", "task", "container", "stream"},
   receive_counts     |-> {"component", "task", "container",
                           "source_component", "source_task", "stream"},
   complete_latencies |-> {"component", "task", "container", "stream"},
   arrival_rates      |-> {"component", "task", "container"}]

\* The name of the value column of each extractor's rows.
ValueField ==
  [service_times |-> "latency_ms", execute_counts |-> "execute_count",
   emit_counts |-> "emit_count", receive_counts |-> "receive_count",
   complete_latencies |-> "complete_latency_ms",
   arrival_rates |-> "arrival_rate_tps"]

\* ------------------------------------------------------ time-window resolver

\* convert_dt_to_ts taking the whole seconds of the instant.
ConvertDtToTsFloor(dt_object) == dt_object \div TicksPerSecond

\* convert_dt_to_ts(dt_object): int(round(dt_object.timestamp()))
convert_dt_to_ts(dt_object) == RoundHalfEven(dt_object, TicksPerSecond)

\* _query_setup without its check of the granularity.
QuerySetupUnchecked(topology_id, metric_name, start, end, kwargs) ==
  Ok([granularity |-> IF "granularity" \in DOMAIN kwargs
                      THEN kwargs.granularity ELSE "m",
      start_ts |-> IF start # None THEN Some(convert_dt_to_ts(start[1])) ELSE None,
      end_ts |-> IF end # None THEN Some(convert_dt_to_ts(end[1])) ELSE None])

\* _query_setup converting end only when start is given too.
QuerySetupDropsLoneEnd(topology_id, metric_name, start, end, kwargs) ==
  IF "granularity" \in DOMAIN kwargs /\ kwargs.granularity \notin DOMAIN PERIOD
  THEN Raise("KeyError")
  ELSE Ok([granularity |-> IF "granularity" \in DOMAIN kwargs
                           THEN kwargs.granularity ELSE "m",
           start_ts |-> IF start # None THEN Some(convert_dt_to_ts(start[1]))
                        ELSE None,
           end_ts |-> IF start # None /\ end # None
                      THEN Some(convert_dt_to_ts(end[1])) ELSE None])

\* _query_setup(topology_id, metric_name, start, end, **kwargs).  start and
\* end are Optional datetimes: a datetime is always truthy, so "if start:"
\* tests for None only.  Returns the triple as a record, or raises KeyError.
_query_setup(topology_id, metric_name, start, end, kwargs) ==
  LET supplied == "granularity" \in DOMAIN kwargs
      granularity == IF supplied THEN kwargs.granularity ELSE "m"
      start_ts == IF start # None THEN Some(convert_dt_to_ts(start[1])) ELSE None
      end_ts == IF end # None THEN Some(convert_dt_to_ts(end[1])) ELSE None
  IN  IF supplied /\ granularity \notin DOMAIN PERIOD
      THEN Raise("KeyError")
      ELSE Ok([granularity |-> granularity, start_ts |-> start_ts,
               end_ts |-> end_ts])

\* What _query_setup logs.
SetupLog(start, end, kwargs) ==
  IF "granularity" \in DOMAIN kwargs /\ kwargs.granularity \notin DOMAIN PERIOD
  THEN {[level |-> "error", msg |-> "invalid granularity"]}
  ELSE IF start # None /\ end # None
  THEN {[level |-> "info", msg |-> "period"]}
  ELSE {}

\* ------------------------------------------------------------ query(): send

\* Truth value of an Optional[int] argument of query(): None and 0 are false.
Truthy(opt) == opt # None /\ opt[1] # 0

\* The params dict query() sends with its GET request.
QueryPayload(client_name, query_str, query_name, granularity, start, end) ==
  LET payload == [query |-> query_str, client_source |-> client_name,
                  granularity |-> granularity, name |-> query_name]
      with_start == IF Truthy(start) THEN payload @@ [start |-> start[1]]
                    ELSE payload
  IN  IF Truthy(start) /\ Truthy(end) THEN with_start @@ [end |-> end[1]]
      ELSE with_start

\* What query() logs before it sends the request.
QueryLog(start, end) ==
     (IF Truthy(start) /\ ~Truthy(end)
      THEN {[level |-> "info", msg |-> "start without end"]} ELSE {})
  \cup
     (IF ~(Truthy(start) /\ Truthy(end)) /\ Truthy(end) /\ ~Truthy(start)
      THEN {[level |-> "warning", msg |-> "end ignored"]} ELSE {})
  \cup
     (IF ~Truthy(start) /\ ~Truthy(end)
      THEN {[level |-> "info", msg |-> "default window"]} ELSE {})

\* ---------------------------------------------------------- query(): answer

\* requests.Response.raise_for_status(): raises HTTPError for a 4xx or 5xx
\* status code and for no other.
raise_for_status(response) ==
  response.status_code >= 400 /\ response.status_code < 600

\* query() from raise_for_status() to its return.  A body whose status is not
\* "Success" is logged; the RuntimeError is constructed and dropped, so the
\* decoded body is returned all the same.
QueryResult(response) ==
  IF raise_for_status(response) THEN Raise("HTTPError")
  ELSE IF ~response.body.json THEN Raise("ValueError")
  ELSE Ok(response.body.doc)

ResultLog(response) ==
  IF /\ ~raise_for_status(response)
     /\ response.body.json
     /\ response.body.doc.status # "Success"
  THEN {[level |-> "error", msg |-> "non-successful status"]}
  ELSE {}

\* ------------------------------------------------------------ the extractors

\* No extractor leaves the entries of system components.
SkipsNoSystem(kind) == FALSE

\* Whether the loop of an extractor leaves an entry of a system component
\* with "continue".  get_emit_counts only logs that it skips the entry.
SkipsSystem(kind) == kind # "emit_counts"

\* Whether the loop leaves an entry with an empty data list before decoding.
SkipsEmpty(kind) == kind = "emit_counts"

\* RowValue dividing an arrival count by the seconds of a minute whatever
\* the granularity.
RowValuePerMinute(kind, raw, granularity) ==
  CASE kind \in {"service_times", "complete_latencies"} ->
         TrueDiv(raw, NanosPerMilli)
    [] kind = "arrival_rates" -> TrueDiv(raw, PERIOD["m"])
    [] OTHER -> IntOfNumber(raw)

\* The value column computed from the raw value entry[1].
RowValue(kind, raw, granularity) ==
  CASE kind \in {"service_times", "complete_latencies"} ->
         TrueDiv(raw, NanosPerMilli)
    [] kind = "arrival_rates" -> TrueDiv(raw, PERIOD[granularity])
    [] OTHER -> IntOfNumber(raw)

\* The row dict built for one data point.
Row(kind, details, entry, granularity) ==
  [k \in {"timestamp"} |-> utcfromtimestamp(entry[1])]
    @@ [k \in DetailKeys[kind] |-> details[k]]
    @@ [k \in {ValueField[kind]} |-> RowValue(kind, entry[2], granularity)]

\* The inner loop over instance["data"]: KeyError at the first data point when
\* the details lack a key the row reads.
Rows(kind, details, data, granularity) ==
  IF data # <<>> /\ ~(DetailKeys[kind] \subseteq DOMAIN details)
  THEN Raise("KeyError")
  ELSE Ok([i \in 1..Len(data) |-> Row(kind, details, data[i], granularity)])

\* One pass of the loop over json_response["timeseries"]:
\* [decoded: whether parse_metric_details was called, out: the rows or the
\* exception].
LoopBody(kind, instance, granularity) ==
  LET instance_tag == instance.source.sources[1]
  IN  IF SkipsSystem(kind) /\ Contains(instance_tag, SysMarker)
      THEN [decoded |-> FALSE, out |-> Ok(<<>>)]
      ELSE IF SkipsEmpty(kind) /\ instance.data = <<>>
      THEN [decoded |-> FALSE, out |-> Ok(<<>>)]
      ELSE LET details == parse_metric_details(instance.source)
           IN  IF ~details.ok THEN [decoded |-> TRUE, out |-> details]
               ELSE [decoded |-> TRUE,
                     out |-> Rows(kind, details.value, instance.data,
                                  granularity)]

\* pd.DataFrame(output): the rows in list order under the union of their keys.
DataFrame(output) ==
  [columns |-> UNION {DOMAIN output[i] : i \in 1..Len(output)},
   rows |-> output]

\* ------------------------------------------------------------------- state

VARIABLES
  client,       \* the HeronCuckooClient: [client_name, base_url]
  frame,        \* per call: the activation of a get_* extractor or of query()
  details_in,   \* the argument of the last parse_metric_details call, or None
  details_out,  \* what that call returned or raised, or None
  compared,     \* the last comparison of objects made, or None
  handler       \* the HeronCurrent resource and its request in progress

vars == <<client, frame, details_in, details_out, compared, handler>>

CallIds == {"c1", "c2"}

\* config[ConfKeys.CUCKOO_CLIENT_NAME.value], config[ConfKeys.CUCKOO_SERVER_URL.value]
Config == [client_name |-> "caladrius", base_url |-> "http://cuckoo"]

TopologyId == "topoA"

\* A call that has not started.  pc is the position of the call:
\*   "idle"      not called
\*   "ready"     the window is resolved, query() is about to send
\*   "awaiting"  the GET request is out
\*   "answered"  the backend has answered
\*   "loop"      the extractor walks json_response["timeseries"]
\*   "done"      returned result
\*   "failed"    raised error
\* decoded and origin record what the loop did and are read by no action:
\* decoded holds the indices of the entries parse_metric_details was called
\* on, origin[i] is the index of the entry that row output[i] was built from.
IdleFrame ==
  [pc |-> "idle", kind |-> "", start |-> None, end |-> None, kwargs |-> <<>>,
   window |-> None, payload |-> None, sent |-> 0, log |-> {},
   response |-> None, timeseries |-> <<>>, idx |-> 0, output |-> <<>>,
   origin |-> <<>>, decoded |-> {}, result |-> None, error |-> ""]

\* The HeronCurrent resource before it is constructed.
NoHandler == [pc |-> "none"]

\* ------------------------------------------------------------- environment

\* The datetimes a caller passes: the epoch, the instants one and a half and
\* two and a half seconds after it (less the odd tick when a second has an odd
\* number of ticks), and the instant one tick before second 3.
Instants ==
  {0, TicksPerSecond + TicksPerSecond \div 2,
   2 * TicksPerSecond + TicksPerSecond \div 2, 3 * TicksPerSecond - 1}

OptInstants == {None} \cup {Some(t) : t \in Instants}

\* The epoch seconds a caller passes to query() directly.
OptSeconds == {None, Some(0), Some(2)}

GranularityTokens == {"m", "h", "d", "M", "s", ""}

KwargsPool == {<<>>} \cup {[granularity |-> g] : g \in GranularityTokens}

\* metrics[0] as the backend names the metric each extractor asks for.
MetricOf ==
  [service_times      |-> SysMarker \o ExecuteLatency \o <<"/", "c", "/", "s">>,
   execute_counts     |-> SysMarker \o ExecuteCount \o <<"/", "c", "/", "s">>,
   emit_counts        |-> SysMarker \o EmitCount \o <<"/", "s">>,
   receive_counts     |-> ReceiveCount \o <<"/", "c", "/", "2", "/", "s">>,
   complete_latencies |-> SysMarker \o CompleteLatency \o <<"/", "s">>,
   arrival_rates      |-> SysMarker \o Gateway \o ReceivedPacketsCount,
   query              |-> SysMarker \o ExecuteCount \o <<"/", "c", "/", "s">>]

Entry(src, metric, data) ==
  [source |-> [sources |-> <<src>>, metrics |-> <<metric>>], data |-> data]

\* sources[0] of a user instance: /b/c_1_b_3
SrcUser == <<"/", "b", "/", "c", "_", "1", "_", "b", "_", "3">>

\* of a second user instance: /a/c_2_a_4
SrcOther == <<"/", "a", "/", "c", "_", "2", "_", "a", "_", "4">>

\* of a stream manager: /__s__/s-1
SrcStmgr == <<"/", "_", "_", "s", "_", "_", "/", "s", "-", "1">>

\* of a system component whose instance name has the user layout: /__x/c_1_x_2
SrcSystem == <<"/", "_", "_", "x", "/", "c", "_", "1", "_", "x", "_", "2">>

\* with too few segments: /b
SrcShort == <<"/", "b">>

\* The timeseries entries the backend answers a query of this kind with: of
\* two user instances (one without data), of a stream manager, of a system
\* component, of a source with too few segments, and of a user instance under
\* the name of the emit-count metric whatever the query asked for.
EntryPool(kind) ==
  {Entry(SrcUser, MetricOf[kind], <<<<1, Rat(120, 1)>>, <<2, Rat(7, 2)>>>>),
   Entry(SrcOther, MetricOf[kind], <<>>),
   Entry(SrcStmgr, MetricOf[kind], <<<<1, Rat(5, 1)>>>>),
   Entry(SrcSystem, MetricOf[kind], <<<<3, Rat(9, 1)>>>>),
   Entry(SrcShort, MetricOf[kind], <<<<1, Rat(1, 1)>>>>),
   Entry(SrcOther, MetricOf["emit_counts"], <<<<2, Rat(4, 1)>>>>)}

SeqsUpTo(S, n) == UNION {[1..k -> S] : k \in 0..n}

NotJson == [json |-> FALSE]

Json(doc) == [json |-> TRUE, doc |-> doc]

OneEntry(kind) ==
  <<Entry(SrcUser, MetricOf[kind], <<<<1, Rat(120, 1)>>, <<2, Rat(7, 2)>>>>)>>

\* The answers of the backend to a query of this kind over the default
\* window.
Responses(kind) ==
     {[status_code |-> 200, body |-> Json([status |-> "Success", timeseries |-> ts])] :
        ts \in SeqsUpTo(EntryPool(kind), MaxEntries)}
  \cup
     {[status_code |-> 200, body |-> b] :
        b \in {NotJson, Json([status |-> "Failure"]),
               Json([status |-> "Failure", timeseries |-> OneEntry(kind)])}}
  \cup
     {[status_code |-> code, body |-> b] :
        code \in {304, 404, 500},
        b \in {NotJson, Json([status |-> "Success", timeseries |-> OneEntry(kind)])}}

\* The answers to a query over a window the caller gave, or of a granularity
\* the caller gave.  The code's use of the answer does not depend on the
\* window, so these calls are answered from a small pool.
WindowedResponses(kind) ==
  {[status_code |-> 200,
    body |-> Json([status |-> "Success", timeseries |-> OneEntry(kind)])],
   [status_code |-> 200, body |-> Json([status |-> "Failure"])],
   [status_code |-> 500, body |-> NotJson]}

\* ------------------------------------------------------------------ actions

Init ==
  /\ client = Config
  /\ frame = [c \in CallIds |-> IdleFrame]
  /\ details_in = None
  /\ details_out = None
  /\ compared = None
  /\ handler = NoHandler

\* A caller calls get_<kind>(topology_id, start, end, **kwargs): the call runs
\* _query_setup and, unless that raises, builds its query string.
Extract(c, kind, start, end, kwargs) ==
  LET setup == _query_setup(TopologyId, "complete latency", start, end, kwargs)
      called == [IdleFrame EXCEPT !.kind = kind, !.start = start, !.end = end,
                                  !.kwargs = kwargs,
                                  !.log = SetupLog(start, end, kwargs)]
  IN  /\ frame[c].pc = "idle"
      /\ frame' = [frame EXCEPT ![c] =
                     IF setup.ok
                     THEN [called EXCEPT !.pc = "ready",
                                         !.window = Some(setup.value)]
                     ELSE [called EXCEPT !.pc = "failed", !.error = setup.exc]]
      /\ UNCHANGED <<client, details_in, details_out, compared, handler>>

\* A caller calls query(query_str, query_name, granularity, start, end)
\* itself, with epoch seconds.
QueryDirect(c, granularity, start, end) ==
  /\ frame[c].pc = "idle"
  /\ frame' = [frame EXCEPT ![c] =
                 [IdleFrame EXCEPT !.kind = "query", !.pc = "ready",
                                   !.window = Some([granularity |-> granularity,
                                                    start_ts |-> start,
                                                    end_ts |-> end])]]
  /\ UNCHANGED <<client, details_in, details_out, compared, handler>>

\* query() up to requests.get(url, params=payload).
Send(c) ==
  LET f == frame[c]
      w == f.window[1]
      query_str == IF f.kind = "query" THEN [agg |-> "", service |-> <<>>,
                                             sources |-> "", metric |-> ""]
                   ELSE QueryStr(f.kind, TopologyId)
      query_name == IF f.kind = "query" THEN "query"
                    ELSE QueryTable[f.kind].name
  IN  /\ f.pc = "ready"
      /\ frame' = [frame EXCEPT ![c] =
                     [f EXCEPT !.pc = "awaiting",
                               !.payload = Some(QueryPayload(client.client_name,
                                                  query_str, query_name,
                                                  w.granularity, w.start_ts,
                                                  w.end_ts)),
                               !.sent = f.sent + 1,
                               !.log = f.log \cup QueryLog(w.start_ts, w.end_ts)]]
      /\ UNCHANGED <<client, details_in, details_out, compared, handler>>

DefaultWindow(f) == f.window[1].start_ts = None /\ f.window[1].end_ts = None

\* The calls answered from the whole of Responses: those over the default
\* window whose granularity is the default one, or is read after the answer
\* (by get_arrival_rates alone).  For the others the granularity only goes
\* into the request, and they are answered from the small pool.
FullyAnswered(f) ==
  /\ DefaultWindow(f)
  /\ f.kwargs = <<>> \/ f.kind = "arrival_rates"

\* The backend answers the request.
Respond(c, r) ==
  /\ frame[c].pc = "awaiting"
  /\ frame' = [frame EXCEPT ![c] = [@ EXCEPT !.pc = "answered",
                                            !.response = Some(r)]]
  /\ UNCHANGED <<client, details_in, details_out, compared, handler>>

\* QueryReturn with a retry: a call whose request met an HTTP error sends the
\* request again.
QueryReturnRetries(c) ==
  LET f == frame[c]
      json_response == QueryResult(f.response[1])
      logged == [f EXCEPT !.log = f.log \cup ResultLog(f.response[1])]
  IN  /\ f.pc = "answered"
      /\ frame' = [frame EXCEPT ![c] =
           IF ~json_response.ok /\ json_response.exc = "HTTPError"
           THEN [logged EXCEPT !.pc = "ready", !.response = None]
           ELSE IF ~json_response.ok
           THEN [logged EXCEPT !.pc = "failed", !.error = json_response.exc]
           ELSE IF f.kind = "query"
           THEN [logged EXCEPT !.pc = "done",
                               !.result = Some(json_response.value)]
           ELSE IF "timeseries" \notin DOMAIN json_response.value
           THEN [logged EXCEPT !.pc = "failed", !.error = "KeyError"]
           ELSE [logged EXCEPT !.pc = "loop", !.idx = 1,
                               !.timeseries = json_response.value.timeseries]]
      /\ UNCHANGED <<client, details_in, details_out, compared, handler>>

\* query() from raise_for_status() to its return, and the extractor up to
\* its loop: output = [] and json_response["timeseries"], a KeyError when the
\* body has no such key.
QueryReturn(c) ==
  LET f == frame[c]
      json_response == QueryResult(f.response[1])
      logged == [f EXCEPT !.log = f.log \cup ResultLog(f.response[1])]
  IN  /\ f.pc = "answered"
      /\ frame' = [frame EXCEPT ![c] =
           IF ~json_response.ok
           THEN [logged EXCEPT !.pc = "failed", !.error = json_response.exc]
           ELSE IF f.kind = "query"
           THEN [logged EXCEPT !.pc = "done",
                               !.result = Some(json_response.value)]
           ELSE IF "timeseries" \notin DOMAIN json_response.value
           THEN [logged EXCEPT !.pc = "failed", !.error = "KeyError"]
           ELSE [logged EXCEPT !.pc = "loop", !.idx = 1,
                               !.timeseries = json_response.value.timeseries]]
      /\ UNCHANGED <<client, details_in, details_out, compared, handler>>

\* ProcessInstance with output kept on the client instead of in the call:
\* the rows are appended to the list of every call that is in its loop.
ProcessInstanceShared(c) ==
  LET f == frame[c]
      body == LoopBody(f.kind, f.timeseries[f.idx], f.window[1].granularity)
      seen == [f EXCEPT !.decoded = IF body.decoded THEN @ \cup {f.idx} ELSE @]
  IN  /\ f.pc = "loop"
      /\ f.idx <= Len(f.timeseries)
      /\ frame' = [d \in CallIds |->
           IF d = c
           THEN IF body.out.ok
                THEN [seen EXCEPT !.idx = f.idx + 1,
                                  !.output = f.output \o body.out.value,
                                  !.origin = f.origin \o
                                    [i \in 1..Len(body.out.value) |-> f.idx]]
                ELSE [seen EXCEPT !.pc = "failed", !.error = body.out.exc]
           ELSE IF frame[d].pc = "loop" /\ body.out.ok
                THEN [frame[d] EXCEPT !.output = @ \o body.out.value]
                ELSE frame[d]]
      /\ UNCHANGED <<client, details_in, details_out, compared, handler>>

\* One pass of "for instance in json_response["timeseries"]".
ProcessInstance(c) ==
  LET f == frame[c]
      body == LoopBody(f.kind, f.timeseries[f.idx], f.window[1].granularity)
      seen == [f EXCEPT !.decoded = IF body.decoded THEN @ \cup {f.idx} ELSE @]
  IN  /\ f.pc = "loop"
      /\ f.idx <= Len(f.timeseries)
      /\ frame' = [frame EXCEPT ![c] =
           IF body.out.ok
           THEN [seen EXCEPT !.idx = f.idx + 1,
                             !.output = f.output \o body.out.value,
                             !.origin = f.origin \o
                               [i \in 1..Len(body.out.value) |-> f.idx]]
           ELSE [seen EXCEPT !.pc = "failed", !.error = body.out.exc]]
      /\ UNCHANGED <<client, details_in, details_out, compared, handler>>

\* The loop is over: return pd.DataFrame(output).
ReturnTable(c) ==
  LET f == frame[c]
  IN  /\ f.pc = "loop"
      /\ f.idx > Len(f.timeseries)
      /\ frame' = [frame EXCEPT ![c] =
                     [f EXCEPT !.pc = "done",
                               !.result = Some(DataFrame(f.output))]]
      /\ UNCHANGED <<client, details_in, details_out, compared, handler>>

\* The caller has the result or the exception; the activation is gone.
Return(c) ==
  /\ frame[c].pc \in {"done", "failed"}
  /\ frame' = [frame EXCEPT ![c] = IdleFrame]
  /\ UNCHANGED <<client, details_in, details_out, compared, handler>>

\* The sources[0] strings given to parse_metric_details on its own: those of
\* the entries above, and /b/c_x_b_3, /b/c_1, b/c_1_b_3, /b/c_12_b_30.
SourcePool ==
  {SrcUser, SrcOther, SrcStmgr, SrcSystem, SrcShort,
   <<"/", "b", "/", "c", "_", "x", "_", "b", "_", "3">>,
   <<"/", "b", "/", "c", "_", "1">>,
   <<"b", "/", "c", "_", "1", "_", "b", "_", "3">>,
   <<"/", "b", "/", "c", "_", "1", "2", "_", "b", "_", "3", "0">>}

\* The metrics[0] strings: the six of MetricOf, and
\* __emit-count, receive-count/c/x/s, receive-count/c/2, __execute-count/c,
\* x/c/s, receive-count-emit-count/c/2/s, c/__emit-count/s.
MetricPool ==
  {MetricOf[k] : k \in ExtractorKinds}
  \cup
  {SysMarker \o EmitCount,
   ReceiveCount \o <<"/", "c", "/", "x", "/", "s">>,
   ReceiveCount \o <<"/", "c", "/", "2">>,
   SysMarker \o ExecuteCount \o <<"/", "c">>,
   <<"x", "/", "c", "/", "s">>,
   ReceiveCount \o <<"-">> \o EmitCount \o <<"/", "c", "/", "2", "/", "s">>,
   <<"c", "/">> \o SysMarker \o EmitCount \o <<"/", "s">>}

\* A caller calls parse_metric_details(details).
Decode(details) ==
  /\ details_in' = Some(details)
  /\ details_out' = Some(parse_metric_details(details))
  /\ UNCHANGED <<client, frame, compared, handler>>

Call(c) ==
  \/ \E kind \in ExtractorKinds, start \in OptInstants, end \in OptInstants,
        kwargs \in KwargsPool : Extract(c, kind, start, end, kwargs)
  \/ \E granularity \in GranularityTokens, start \in OptSeconds,
        end \in OptSeconds : QueryDirect(c, granularity, start, end)

Answer(c) ==
  /\ frame[c].pc = "awaiting"
  /\ \E r \in (IF FullyAnswered(frame[c]) THEN Responses(frame[c].kind)
               ELSE WindowedResponses(frame[c].kind)) : Respond(c, r)

Step(c) ==
  \/ Call(c)
  \/ Send(c)
  \/ Answer(c)
  \/ QueryReturn(c)
  \/ ProcessInstance(c)
  \/ ReturnTable(c)
  \/ Return(c)

\* One caller at a time.
Next == Step("c1")

Spec == Init /\ [][Next]_vars

\* The decoder on its own, over every source and metric string of the pools.
NextDecode ==
  \E src \in SourcePool, metric \in MetricPool :
    Decode([sources |-> <<src>>, metrics |-> <<metric>>])

SpecDecode == Init /\ [][NextDecode]_vars

\* ------------------------------------------------- two calls in progress

\* The answers of the backend while two calls are in progress: a user entry
\* followed by a system entry, one entry with too few segments with and
\* without data, and a server error.
SharedResponses(kind) ==
     {[status_code |-> 200,
       body |-> Json([status |-> "Success", timeseries |-> ts])] :
        ts \in {OneEntry(kind) \o
                  <<Entry(SrcSystem, MetricOf[kind], <<<<3, Rat(9, 1)>>>>)>>,
                <<Entry(SrcShort, MetricOf[kind], <<<<1, Rat(1, 1)>>>>)>>,
                <<Entry(SrcShort, MetricOf[kind], <<>>)>>}}
  \cup
     {[status_code |-> 500, body |-> NotJson]}

\* A caller calls an extractor with defaults while another call may be in
\* progress on the same client.
CallConcurrent(c) ==
  \E kind \in ExtractorKinds : Extract(c, kind, None, None, <<>>)

AnswerConcurrent(c) ==
  /\ frame[c].pc = "awaiting"
  /\ \E r \in SharedResponses(frame[c].kind) : Respond(c, r)

StepConcurrent(c) ==
  \/ CallConcurrent(c)
  \/ Send(c)
  \/ AnswerConcurrent(c)
  \/ QueryReturn(c)
  \/ ProcessInstance(c)
  \/ ReturnTable(c)
  \/ Return(c)

\* The steps of the calls of two threads interleave in any order.
NextConcurrent == \E c \in CallIds : StepConcurrent(c)

SpecConcurrent == Init /\ [][NextConcurrent]_vars

\* ------------------------------------------------- __eq__ and __hash__

\* An object is a record: classes holds the names of the classes it is an
\* instance of, the other fields are its attributes.
ClientClasses == {"HeronCuckooClient", "HeronMetricsClient", "object"}

\* HeronCuckooClient(config)
HeronCuckooClient(config) ==
  [classes |-> ClientClasses, client_name |-> config.client_name,
   base_url |-> config.base_url]

isinstance(obj, class) == class \in obj.classes

\* hash() of a str, fixed for the life of the process.
StrHash ==
  [s \in {"caladrius", "stargazer", "http://cuckoo", "http://cuckoo:8080"} |->
     CASE s = "caladrius" -> 11
       [] s = "stargazer" -> 5
       [] s = "http://cuckoo" -> 7
       [] s = "http://cuckoo:8080" -> 2]

\* hash() of a tuple of two strings: computed from the hashes of its items.
hash(t) == 31 * StrHash[t[1]] + StrHash[t[2]]

\* HeronCuckooClient.__hash__(self)
__hash__(self) == hash(<<self.client_name, self.base_url>>)

\* __eq__ comparing the client names only.
EqByName(self, other) ==
  IF ~isinstance(other, "HeronCuckooClient") THEN FALSE
  ELSE self.client_name = other.client_name

\* HeronCuckooClient.__eq__(self, other)
__eq__(self, other) ==
  IF ~isinstance(other, "HeronCuckooClient") THEN FALSE
  ELSE IF self.client_name = other.client_name /\ self.base_url = other.base_url
  THEN TRUE
  ELSE FALSE

\* The expression x == y: the __eq__ of x when x is a client; otherwise x
\* defines no comparison with a client (NotImplemented) and the reflected
\* __eq__ of y is taken when y is a client; otherwise identity.
Equals(x, y) ==
  IF isinstance(x, "HeronCuckooClient") THEN __eq__(x, y)
  ELSE IF isinstance(y, "HeronCuckooClient") THEN __eq__(y, x)
  ELSE x = y

\* The configurations clients are constructed from.
Configs ==
  {[client_name |-> n, base_url |-> u] :
     n \in {"caladrius", "stargazer"},
     u \in {"http://cuckoo", "http://cuckoo:8080"}}

Clients == {HeronCuckooClient(config) : config \in Configs}

\* The objects compared: the clients, a metrics client of another class
\* with the attributes of a client, and a string.
Objects ==
  Clients
  \cup {[classes |-> {"HeronMetricsClient", "object"},
         client_name |-> "caladrius", base_url |-> "http://cuckoo"],
        [classes |-> {"str", "object"}]}

\* A caller compares a client with two objects, every way round, and takes
\* the hashes of those that are clients.
Compare(a, b, c) ==
  /\ compared' = Some([a |-> a, b |-> b, c |-> c,
                       aa |-> Equals(a, a), ab |-> Equals(a, b),
                       ba |-> Equals(b, a), bc |-> Equals(b, c),
                       ac |-> Equals(a, c),
                       hashes |-> [o \in {a, b, c} \cap Clients |-> __hash__(o)]])
  /\ UNCHANGED <<client, frame, details_in, details_out, handler>>

NextCompare == \E a \in Clients, b \in Objects, c \in Objects : Compare(a, b, c)

SpecCompare == Init /\ [][NextCompare]_vars

\* ------------------------------------------- HeronCurrent (api/model/topology)

\* Values of the request arguments carry their Python type, so that == between
\* values of different types is computed (it is False), not assumed.
PyNone == [type |-> "NoneType"]

PyStr(value) == [type |-> "str", value |-> value]

PyList(items) == [type |-> "list", items |-> items]

\* The expression x == y on such values.
PyEq(x, y) == x.type = y.type /\ x = y

\* The names of the model classes the resource may be constructed with.
ModelNames == {"queueing_theory", "throughput", "model_name"}

\* What the "model" argument parses to: the argument is declared with
\* action='append', so it is None when absent and a list of strings otherwise.
ModelArgs ==
  {PyNone}
  \cup {PyList(<<n>>) : n \in {"all", "queueing_theory", "model_name"}}
  \cup {PyList(<<n, m>>) : n \in {"all", "queueing_theory", "model_name"},
                           m \in {"throughput", "model_name"}}

\* What graph_check returns or raises: the reference of the topology, or the
\* failure for a topology the graph store does not know.
CheckOutcomes(topology_id) ==
  {Ok(<<topology_id, "ref1">>), Ok(<<topology_id, "ref2">>),
   Raise("topology unknown")}

\* HeronCurrent.__init__: self.models maps the name of each model to the
\* model; the handler then waits for a request.
HeronCurrent(model_classes) ==
  /\ handler.pc = "none"
  /\ handler' = [pc |-> "idle", models |-> model_classes]
  /\ UNCHANGED <<client, frame, details_in, details_out, compared>>

\* get(topology_id) up to the call of graph_check: parse_args() refuses a
\* request without cluster or environ (both required).
get(topology_id, cluster, environ, model) ==
  LET request == [pc |-> "checking", models |-> handler.models,
                  topology_id |-> topology_id,
                  args |-> [cluster |-> cluster, environ |-> environ,
                            model |-> model],
                  checked |-> None, iterating |-> None, lookups |-> <<>>,
                  result |-> None, error |-> ""]
  IN  /\ handler.pc = "idle"
      /\ handler' = IF cluster = None \/ environ = None
                    THEN [request EXCEPT !.pc = "failed", !.error = "BadRequest"]
                    ELSE request
      /\ UNCHANGED <<client, frame, details_in, details_out, compared>>

\* graph_check returns or raises; when it returns, get() chooses the models
\* to run: the keys of self.models if args["model"] == "all", else
\* args["model"].
graph_check(outcome) ==
  /\ handler.pc = "checking"
  /\ handler' =
       IF ~outcome.ok
       THEN [handler EXCEPT !.pc = "failed", !.checked = Some(outcome),
                            !.error = outcome.exc]
       ELSE [handler EXCEPT
               !.pc = "looping",
               !.checked = Some(outcome),
               !.iterating =
                 Some(IF PyEq(handler.args.model, PyStr("all"))
                      THEN [type |-> "dict_keys", keys |-> handler.models]
                      ELSE handler.args.model)]
  /\ UNCHANGED <<client, frame, details_in, details_out, compared>>

\* "for model_name in models": iterating None raises TypeError; each pass
\* looks up self.models["model_name"], the literal string, which raises
\* KeyError unless a model of that name exists; after the last pass get()
\* returns the dict.
RunModels ==
  LET models == handler.iterating[1]
      returned == [handler EXCEPT
                     !.pc = "returned",
                     !.result = Some([topology_id |-> handler.topology_id,
                                      topology_ref |-> handler.checked[1].value])]
  IN  /\ handler.pc = "looping"
      /\ handler' =
           IF models.type = "NoneType"
           THEN [handler EXCEPT !.pc = "failed", !.error = "TypeError"]
           ELSE IF models.type = "dict_keys"
           THEN IF models.keys = {} THEN returned
                ELSE IF "model_name" \notin handler.models
                THEN [handler EXCEPT !.pc = "failed", !.error = "KeyError",
                                     !.lookups = @ \o <<"model_name">>]
                ELSE [handler EXCEPT
                        !.lookups = @ \o <<"model_name">>,
                        !.iterating = Some([models EXCEPT !.keys =
                           @ \ {CHOOSE k \in models.keys : TRUE}])]
           ELSE IF models.items = <<>> THEN returned
           ELSE IF "model_name" \notin handler.models
           THEN [handler EXCEPT !.pc = "failed", !.error = "KeyError",
                                !.lookups = @ \o <<"model_name">>]
           ELSE [handler EXCEPT
                   !.lookups = @ \o <<"model_name">>,
                   !.iterating = Some(PyList(Tail(models.items)))]
      /\ UNCHANGED <<client, frame, details_in, details_out, compared>>

\* The response, or the error, has gone to the requester.
Reply ==
  /\ handler.pc \in {"returned", "failed"}
  /\ handler' = [pc |-> "idle", models |-> handler.models]
  /\ UNCHANGED <<client, frame, details_in, details_out, compared>>

NextApi ==
  \/ \E model_classes \in SUBSET ModelNames : HeronCurrent(model_classes)
  \/ \E cluster \in {None, Some("local")}, environ \in {None, Some("prod")},
        model \in ModelArgs : get(TopologyId, cluster, environ, model)
  \/ \E outcome \in CheckOutcomes(TopologyId) : graph_check(outcome)
  \/ RunModels
  \/ Reply

SpecApi == Init /\ [][NextApi]_vars

\* ------------------------------------------------------------------ claims

\* The call has taken the backend's answer through query().
Handled(f) == f.response # None /\ f.pc \in {"loop", "done", "failed"}

Is2xx(r) == r.status_code >= 200 /\ r.status_code <= 299

IsSystem(instance) == Contains(instance.source.sources[1], SysMarker)

\* The rows the call returned: none unless it returned a table.
ReturnedRows(f) ==
  IF f.pc = "done" /\ f.kind \in ExtractorKinds THEN f.result[1].rows ELSE <<>>

\* C1: a 2xx answer whose decoded body has a status other than "Success"
\* makes the call - an extractor or query() itself - fail with the
\* query-failed error (RuntimeError in the source's words) and return neither
\* a payload nor records.
C1_LogicalFailureRaises ==
  \A c \in CallIds :
    LET f == frame[c]
    IN  ( /\ Handled(f)
          /\ Is2xx(f.response[1])
          /\ f.response[1].body.json
          /\ f.response[1].body.doc.status # "Success" )
        => /\ f.pc = "failed"
           /\ f.error = "RuntimeError"
           /\ f.result = None
           /\ f.output = <<>>

\* C2: in a table an extractor returns, no row was built from an entry whose
\* sources[0] contains "__".
C2_NoRowFromSystemEntry ==
  \A c \in CallIds :
    LET f == frame[c]
    IN  (f.pc = "done" /\ f.kind \in ExtractorKinds)
        => \A i \in 1..Len(f.origin) : ~IsSystem(f.timeseries[f.origin[i]])

\* C3: an answer with a status outside 200..299 makes the call fail with the
\* transport error (HTTPError), return no records and decode no entry.
C3_Non2xxRaises ==
  \A c \in CallIds :
    LET f == frame[c]
    IN  (Handled(f) /\ ~Is2xx(f.response[1]))
        => /\ f.pc = "failed"
           /\ f.error = "HTTPError"
           /\ f.result = None
           /\ f.output = <<>>
           /\ f.decoded = {}

\* The granularity keyword the caller supplied, if any.
Supplied(f) == "granularity" \in DOMAIN f.kwargs

\* The call is one of the six extractors and _query_setup has run.
Resolved(f) == f.kind \in ExtractorKinds /\ f.pc # "idle"

C5_LoneEndDiscardedBySetup ==
  \A c \in CallIds :
    LET f == frame[c]
    IN  (Resolved(f) /\ f.window # None)
        => LET w == f.window[1]
           IN  /\ (f.start # None /\ f.end = None)
                    => (w.start_ts # None /\ w.end_ts = None)
               /\ (f.start = None /\ f.end # None)
                    => (w.start_ts = None /\ w.end_ts = None)
               /\ (f.start = None /\ f.end = None)
                    => (w.start_ts = None /\ w.end_ts = None)

\* C5 amended: as C5, but given end only the triple has start absent and end
\* set, to the epoch seconds of the given instant.
C5_LoneEndKeptBySetup ==
  \A c \in CallIds :
    LET f == frame[c]
    IN  (Resolved(f) /\ f.window # None)
        => LET w == f.window[1]
           IN  /\ (f.start # None /\ f.end = None)
                    => (w.start_ts # None /\ w.end_ts = None)
               /\ (f.start = None /\ f.end # None)
                    => /\ w.start_ts = None
                       /\ w.end_ts # None
                       /\ w.end_ts[1] * TicksPerSecond - f.end[1]
                            \in -(TicksPerSecond \div 2)..(TicksPerSecond \div 2)
               /\ (f.start = None /\ f.end = None)
                    => (w.start_ts = None /\ w.end_ts = None)

\* C5's case: a call given end only has its window resolved.
C5_Witness ==
  \E c \in CallIds :
    /\ frame[c].kind \in ExtractorKinds
    /\ frame[c].pc = "ready"
    /\ frame[c].start = None
    /\ frame[c].end # None
    /\ frame[c].window[1].end_ts # None

\* C6: a request query() sends carries end only if it carries start; and a
\* call of query() with end but no start is not refused: its request carries
\* neither, and a warning has been logged.
C6_LoneEndWarned ==
  \A c \in CallIds :
    LET f == frame[c]
    IN  f.payload # None
        => /\ "end" \in DOMAIN f.payload[1] => "start" \in DOMAIN f.payload[1]
           /\ (f.window[1].end_ts # None /\ f.window[1].start_ts = None)
                => /\ f.sent = 1
                   /\ "start" \notin DOMAIN f.payload[1]
                   /\ "end" \notin DOMAIN f.payload[1]
                   /\ \E l \in f.log : l.level = "warning"

\* The data points of the entries of user components, in the order of the
\* answer: <<j, k>> is data point k of entry j.
RECURSIVE PointsFrom(_, _)
PointsFrom(ts, j) ==
  IF j > Len(ts) THEN <<>>
  ELSE (IF IsSystem(ts[j]) THEN <<>>
        ELSE [k \in 1..Len(ts[j].data) |-> <<j, k>>]) \o PointsFrom(ts, j + 1)

UserPoints(ts) == PointsFrom(ts, 1)

RECURSIVE UserDataLen(_, _)
UserDataLen(ts, j) ==
  IF j > Len(ts) THEN 0
  ELSE (IF IsSystem(ts[j]) THEN 0 ELSE Len(ts[j].data)) + UserDataLen(ts, j + 1)

\* Every entry of a user component in the answer can be decoded.
UserEntriesDecodable(ts) ==
  \A j \in 1..Len(ts) :
    ~IsSystem(ts[j]) => parse_metric_details(ts[j].source).ok

\* The call walked the timeseries of its answer and has ended.
Walked(f) == f.pc \in {"done", "failed"} /\ f.idx >= 1

\* C7: in a get_emit_counts call over an answer whose user entries are all
\* decodable, an entry with an empty data list that the pass has reached
\* yields no row and does not end the pass: every later user entry with data
\* yields one returned row per data point.
C7_EmptyEntryDoesNotStopPass ==
  \A c \in CallIds :
    LET f == frame[c]
        ts == f.timeseries
        rows == ReturnedRows(f)
        RowsOf(j) == {n \in 1..Len(rows) : f.origin[n] = j}
    IN  (f.kind = "emit_counts" /\ Walked(f) /\ UserEntriesDecodable(ts))
        => \A i \in 1..Len(ts), j \in 1..Len(ts) :
             ( /\ i < j
               /\ f.idx > i
               /\ ts[i].data = <<>>
               /\ ~IsSystem(ts[j])
               /\ ts[j].data # <<>> )
             => /\ RowsOf(i) = {}
                /\ Cardinality(RowsOf(j)) = Len(ts[j].data)

\* C8: the table get_execute_counts returns for a successful answer has one
\* row per data point of the non-system entries, in the answer's order, and
\* no other row; row n carries the timestamp of its data point and, as
\* execute_count, the integer part of its raw value.
C8_ExecuteCountTable ==
  \A c \in CallIds :
    LET f == frame[c]
    IN  ( /\ f.kind = "execute_counts"
          /\ f.pc = "done"
          /\ Is2xx(f.response[1])
          /\ f.response[1].body.doc.status = "Success" )
        => LET ts == f.response[1].body.doc.timeseries
               pts == UserPoints(ts)
               rows == f.result[1].rows
           IN  /\ Len(rows) = UserDataLen(ts, 1)
               /\ Len(rows) = Len(pts)
               /\ \A n \in 1..Len(rows) :
                    LET entry == ts[pts[n][1]].data[pts[n][2]]
                        raw == entry[2]
                        count == rows[n].execute_count
                    IN  /\ rows[n].timestamp = entry[1] * TicksPerSecond
                        /\ count * raw.den <= raw.num
                        /\ raw.num < (count + 1) * raw.den
                        /\ <<"/">> \o rows[n].component \o <<"/">> =
                             SubSeq(ts[pts[n][1]].source.sources[1], 1,
                                    Len(rows[n].component) + 2)

\* C8's case: the answer holds two entries of user components with data and
\* one system entry, and the table has the four rows of the user entries.
C8_Witness ==
  \E c \in CallIds :
    LET f == frame[c]
    IN  /\ f.kind = "execute_counts"
        /\ f.pc = "done"
        /\ f.response[1].body.doc.status = "Success"
        /\ Len(f.timeseries) = 3
        /\ Cardinality({j \in 1..3 : IsSystem(f.timeseries[j])}) = 1
        /\ Cardinality({j \in 1..3 : f.timeseries[j].data # <<>>}) = 3
        /\ Len(f.result[1].rows) = 4

\* C9: every row get_arrival_rates returns carries, as arrival_rate_tps, the
\* raw value of its data point divided by the seconds (60, 3600, 86400) of
\* the granularity sent with the call's request: the supplied one, or "m".
C9_ArrivalRate ==
  \A c \in CallIds :
    LET f == frame[c]
    IN  (f.kind = "arrival_rates" /\ f.pc = "done")
        => LET ts == f.response[1].body.doc.timeseries
               pts == UserPoints(ts)
               rows == f.result[1].rows
               sent == f.payload[1].granularity
               seconds == CASE sent = "m" -> 60
                            [] sent = "h" -> 3600
                            [] sent = "d" -> 86400
           IN  /\ sent = IF Supplied(f) THEN f.kwargs.granularity ELSE "m"
               /\ Len(rows) = Len(pts)
               /\ \A n \in 1..Len(rows) :
                    LET raw == ts[pts[n][1]].data[pts[n][2]][2]
                        rate == rows[n].arrival_rate_tps
                    IN  rate.num * raw.den * seconds = raw.num * rate.den

\* C9's cases: raw 120 with no granularity supplied gives 2, and a call with
\* granularity "h" returns rows.
C9_Witness ==
  \E c \in CallIds :
    LET f == frame[c]
    IN  /\ f.kind = "arrival_rates"
        /\ f.pc = "done"
        /\ ~Supplied(f)
        /\ Len(f.result[1].rows) >= 1
        /\ f.timeseries[f.origin[1]].data[1][2] = [num |-> 120, den |-> 1]
        /\ f.result[1].rows[1].arrival_rate_tps = [num |-> 2, den |-> 1]

C9_WitnessHour ==
  \E c \in CallIds :
    LET f == frame[c]
    IN  /\ f.kind = "arrival_rates"
        /\ f.pc = "done"
        /\ f.kwargs = [granularity |-> "h"]
        /\ Len(f.result[1].rows) >= 1
        /\ f.result[1].rows[1].arrival_rate_tps = [num |-> 1, den |-> 30]

\* '/'-segment n (from 0) of a path string, '_'-sub-segment n of a segment.
Segment(s, n) == Split(s, "/")[n + 1]

SubSegment(s, n) == Split(s, "_")[n + 1]

IsInteger(s) == s # <<>> /\ \A i \in 1..Len(s) : s[i] \in {Digits[d] : d \in 1..10}

\* The rule of spec 4.2 that the first segment of metrics[0] selects.
RuleOf(m0) ==
  IF Contains(m0, ReceivedPacketsCount) THEN "received-packets-count"
  ELSE IF Contains(m0, ReceiveCount) THEN "receive-count"
  ELSE IF Contains(m0, EmitCount) \/ Contains(m0, CompleteLatency) THEN "stream"
  ELSE "execute"

\* A descriptor is well formed when its strings have the segments that the
\* instance reference and its rule name, integers where integers are read.
WellFormed(details) ==
  LET src == details.sources[1]
      metric == details.metrics[1]
      rule == RuleOf(Segment(metric, 0))
      n == Len(Split(metric, "/"))
  IN  /\ Len(Split(src, "/")) >= 3
      /\ Len(Split(Segment(src, 2), "_")) >= 4
      /\ IsInteger(SubSegment(Segment(src, 2), 1))
      /\ IsInteger(SubSegment(Segment(src, 2), 3))
      /\ rule = "receive-count" => n >= 4 /\ IsInteger(Segment(metric, 2))
      /\ rule = "stream" => n >= 2
      /\ rule = "execute" => n >= 3

\* C10: on every well-formed descriptor parse_metric_details returns the
\* record of spec 4.2: component, container and task from sources[0], and
\* from metrics[0] the fields of the first rule its segment 0 matches, and no
\* other field.
C10_DecoderMatchesReference ==
  (details_in # None /\ WellFormed(details_in[1]))
  => LET src == details_in[1].sources[1]
         metric == details_in[1].metrics[1]
         rule == RuleOf(Segment(metric, 0))
         base == {"component", "container", "task"}
         out == details_out[1]
     IN  /\ out.ok
         /\ out.value.component = Segment(src, 1)
         /\ out.value.container = DecimalValue(SubSegment(Segment(src, 2), 1))
         /\ out.value.task = DecimalValue(SubSegment(Segment(src, 2), 3))
         /\ rule = "received-packets-count" => DOMAIN out.value = base
         /\ rule = "receive-count"
              => /\ DOMAIN out.value =
                      base \cup {"source_component", "source_task", "stream"}
                 /\ out.value.source_component = Segment(metric, 1)
                 /\ out.value.source_task = DecimalValue(Segment(metric, 2))
                 /\ out.value.stream = Segment(metric, 3)
         /\ rule = "stream"
              => /\ DOMAIN out.value = base \cup {"stream"}
                 /\ out.value.stream = Segment(metric, 1)
         /\ rule = "execute"
              => /\ DOMAIN out.value = base \cup {"source_component", "stream"}
                 /\ out.value.source_component = Segment(metric, 1)
                 /\ out.value.stream = Segment(metric, 2)

\* C10's case: a well-formed descriptor whose metric name matches two rules,
\* decoded by the first of them.
C10_Witness ==
  /\ details_in # None
  /\ WellFormed(details_in[1])
  /\ Contains(Segment(details_in[1].metrics[1], 0), ReceiveCount)
  /\ Contains(Segment(details_in[1].metrics[1], 0), EmitCount)
  /\ details_out[1].ok
  /\ details_out[1].value.source_task = 2
  /\ details_out[1].value.container = 12

\* The entries of the answer that belong to a user component and that
\* parse_metric_details cannot decode.
Malformed(ts) ==
  {j \in 1..Len(ts) :
     ~IsSystem(ts[j]) /\ ~parse_metric_details(ts[j].source).ok}

\* Two calls were given the same answer: the same entries but for the metric
\* name, which is that of each call's own query.
SameAnswer(f, g) ==
  /\ Len(f.timeseries) = Len(g.timeseries)
  /\ \A j \in 1..Len(f.timeseries) :
       /\ f.timeseries[j].source.sources = g.timeseries[j].source.sources
       /\ f.timeseries[j].data = g.timeseries[j].data

\* C11: two extractor calls that walked the same answer, an answer with one
\* undecodable entry of a user component and no system entry, end alike: both
\* abort or both return a table, whatever the data list of the entry.
C11_UniformMalformedHandling ==
  \A c \in CallIds, d \in CallIds :
    LET f == frame[c]
        g == frame[d]
    IN  ( /\ f.kind \in ExtractorKinds /\ g.kind \in ExtractorKinds
          /\ Walked(f) /\ Walked(g)
          /\ SameAnswer(f, g)
          /\ Cardinality(Malformed(f.timeseries)) = 1
          /\ \A j \in 1..Len(f.timeseries) : ~IsSystem(f.timeseries[j]) )
        => ((f.pc = "failed") <=> (g.pc = "failed"))

\* C12: in a call of any extractor parse_metric_details is called on no entry
\* whose sources[0] contains "__", and the entry at which a call aborts is
\* never such an entry.
C12_DecoderNeverSeesSystemEntry ==
  \A c \in CallIds :
    LET f == frame[c]
    IN  f.kind \in ExtractorKinds
        => /\ \A i \in f.decoded : ~IsSystem(f.timeseries[i])
           /\ (f.pc = "failed" /\ f.idx >= 1)
                => ~IsSystem(f.timeseries[f.idx])

\* C13: an extractor call whose arguments _query_setup accepted sends one
\* request and no more: none before query() reaches requests.get, one from
\* then on whether the call returns or fails, and parse_metric_details is
\* called only once the request has been sent and answered.
C13_ExactlyOneRequest ==
  \A c \in CallIds :
    LET f == frame[c]
    IN  (f.kind \in ExtractorKinds /\ f.window # None)
        => /\ f.pc = "ready" => f.sent = 0
           /\ f.pc \in {"awaiting", "answered", "loop", "done", "failed"}
                => f.sent = 1
           /\ f.pc \in {"ready", "awaiting", "answered"} => f.decoded = {}
           /\ f.decoded # {} => f.sent = 1 /\ f.response # None

\* C13's cases: a call whose request the backend refused has failed having
\* sent one request; a call that decoded entries has sent one.
C13_Witness ==
  \E c \in CallIds :
    LET f == frame[c]
    IN  /\ f.kind \in ExtractorKinds
        /\ f.pc = "failed"
        /\ f.error = "HTTPError"
        /\ f.response[1].status_code = 500
        /\ f.sent = 1

\* Both instants were given and _query_setup accepted the call.
BothGiven(f) ==
  /\ f.kind \in ExtractorKinds
  /\ f.window # None
  /\ f.start # None
  /\ f.end # None

\* C14 as stated: given both start and end, _query_setup converts each
\* instant to its whole seconds, dropping the fraction whatever it is.
C14_ResolverFloors ==
  \A c \in CallIds :
    LET f == frame[c]
    IN  BothGiven(f)
        => /\ f.window[1].start_ts = Some(f.start[1] \div TicksPerSecond)
           /\ f.window[1].end_ts = Some(f.end[1] \div TicksPerSecond)

\* seconds is the whole number of seconds nearest to the instant, the even
\* one of the two when the instant lies half-way between them.
NearestSecond(instant, seconds) ==
  LET whole == instant \div TicksPerSecond
      twice == 2 * (instant % TicksPerSecond)
  IN  /\ twice < TicksPerSecond => seconds = whole
      /\ twice > TicksPerSecond => seconds = whole + 1
      /\ twice = TicksPerSecond
           => seconds \in {whole, whole + 1} /\ seconds % 2 = 0

\* C14 amended: given both start and end, _query_setup converts each instant
\* to the nearest whole second: s for a fraction below 0.5, s + 1 for a
\* fraction above 0.5, the even one of s and s + 1 for the fraction 0.5.
C14_ResolverRoundsToNearest ==
  \A c \in CallIds :
    LET f == frame[c]
    IN  BothGiven(f)
        => /\ f.window[1].start_ts # None
           /\ f.window[1].end_ts # None
           /\ NearestSecond(f.start[1], f.window[1].start_ts[1])
           /\ NearestSecond(f.end[1], f.window[1].end_ts[1])

\* C14's case: a call given both instants, the end with a fraction above 0.5
\* that the conversion took to the next second.
C14_Witness ==
  \E c \in CallIds :
    LET f == frame[c]
    IN  /\ BothGiven(f)
        /\ 2 * (f.end[1] % TicksPerSecond) > TicksPerSecond
        /\ f.window[1].end_ts[1] = f.end[1] \div TicksPerSecond + 1
        /\ f.window[1].start_ts[1] = f.start[1] \div TicksPerSecond

\* C15: two clients compare equal exactly when their client names are equal
\* and their base URLs are equal; == is reflexive, symmetric and transitive;
\* a client equals no object that is not a client; clients that compare
\* equal have equal hashes.
C15_ClientEquality ==
  compared # None
  => LET r == compared[1]
         IsClient(o) == "HeronCuckooClient" \in o.classes
     IN  /\ IsClient(r.b)
              => (r.ab <=> /\ r.a.client_name = r.b.client_name
                           /\ r.a.base_url = r.b.base_url)
         /\ r.aa
         /\ r.ab <=> r.ba
         /\ (r.ab /\ r.bc) => r.ac
         /\ ~IsClient(r.b) => ~r.ab /\ ~r.ba
         /\ ~IsClient(r.c) => ~r.ac
         /\ (IsClient(r.b) /\ r.ab) => r.hashes[r.a] = r.hashes[r.b]

\* C15's cases: a client compared with a client of the same name and
\* another URL, and with an object of another class that has its name and
\* URL.
C15_Witness ==
  /\ compared # None
  /\ "HeronCuckooClient" \in compared[1].b.classes
  /\ compared[1].a.client_name = compared[1].b.client_name
  /\ compared[1].a.base_url # compared[1].b.base_url
  /\ ~compared[1].ab
  /\ "HeronMetricsClient" \in compared[1].c.classes
  /\ "HeronCuckooClient" \notin compared[1].c.classes
  /\ compared[1].c.client_name = compared[1].a.client_name
  /\ compared[1].c.base_url = compared[1].a.base_url
  /\ ~compared[1].ac

\* What the loop of an extractor makes of a timeseries list from entry j on
\* when nothing else runs: the rows in order, or the first exception.
RECURSIVE RowsAlone(_, _, _, _)
RowsAlone(kind, ts, granularity, j) ==
  IF j > Len(ts) THEN Ok(<<>>)
  ELSE LET here == LoopBody(kind, ts[j], granularity).out
       IN  IF ~here.ok THEN here
           ELSE LET rest == RowsAlone(kind, ts, granularity, j + 1)
                IN  IF ~rest.ok THEN rest
                    ELSE Ok(here.value \o rest.value)

\* What a call of the extractor returns or raises for an answer when it is
\* the only call.
Alone(kind, response, granularity) ==
  LET json_response == QueryResult(response)
  IN  IF ~json_response.ok THEN json_response
      ELSE IF "timeseries" \notin DOMAIN json_response.value
      THEN Raise("KeyError")
      ELSE LET rows == RowsAlone(kind, json_response.value.timeseries,
                                 granularity, 1)
           IN  IF rows.ok THEN Ok(DataFrame(rows.value)) ELSE rows

\* C16: with the steps of two calls on one client interleaved in any order,
\* a call that has ended returned the table, or raised the exception, that
\* it yields for its answer when run alone; and the client's name and URL
\* are those it was constructed with.
C16_CallsShareNoState ==
  /\ client = Config
  /\ \A c \in CallIds :
       LET f == frame[c]
       IN  (f.kind \in ExtractorKinds /\ f.pc \in {"done", "failed"})
           => LET alone == Alone(f.kind, f.response[1], f.window[1].granularity)
              IN  IF alone.ok
                  THEN f.pc = "done" /\ f.result = Some(alone.value)
                  ELSE /\ f.pc = "failed"
                       /\ f.error = alone.exc
                       /\ f.result = None

\* C16's case: one call has returned a table of three rows while a call of
\* another extractor is in the middle of its loop with rows of its own.
C16_Witness ==
  \E c \in CallIds, d \in CallIds :
    /\ c # d
    /\ frame[c].kind \in ExtractorKinds
    /\ frame[d].kind \in ExtractorKinds
    /\ frame[c].kind # frame[d].kind
    /\ frame[c].pc = "done"
    /\ Len(frame[c].result[1].rows) = 3
    /\ frame[d].pc = "loop"
    /\ frame[d].idx = 2
    /\ Len(frame[d].output) = 2

\* C17: the request of an extractor call given a start instant carries that
\* instant's epoch seconds as start, and carries end as well when an end
\* instant was given.
C17_StartCarried ==
  \A c \in CallIds :
    LET f == frame[c]
    IN  (f.kind \in ExtractorKinds /\ f.payload # None /\ f.start # None)
        => /\ "start" \in DOMAIN f.payload[1]
           /\ NearestSecond(f.start[1], f.payload[1].start)
           /\ f.end # None => "end" \in DOMAIN f.payload[1]

\* The shape of metrics[0] that the query template of each extractor
\* produces: the name that is its first '/'-segment and the number of
\* segments.
TemplateShape ==
  [service_times      |-> [name |-> SysMarker \o ExecuteLatency, segments |-> 3],
   execute_counts     |-> [name |-> SysMarker \o ExecuteCount, segments |-> 3],
   emit_counts        |-> [name |-> SysMarker \o EmitCount, segments |-> 2],
   receive_counts     |-> [name |-> ReceiveCount, segments |-> 4],
   complete_latencies |-> [name |-> SysMarker \o CompleteLatency, segments |-> 2],
   arrival_rates      |-> [name |-> SysMarker \o Gateway \o ReceivedPacketsCount,
                           segments |-> 1]]

\* metrics[0] has the shape of the extractor's template; the t of
\* receive-count/c/t/s is a task id, an integer.
HasTemplateShape(kind, metric) ==
  /\ Len(Split(metric, "/")) = TemplateShape[kind].segments
  /\ Segment(metric, 0) = TemplateShape[kind].name
  /\ kind = "receive_counts" => IsInteger(Segment(metric, 2))

\* The entry is of a user component, its sources[0] can be decoded and its
\* metrics[0] has the shape of the extractor's template.
Templated(kind, instance) ==
  /\ ~IsSystem(instance)
  /\ InstanceDetails(instance.source).ok
  /\ HasTemplateShape(kind, instance.source.metrics[1])

\* C18: in a call of any of the six extractors, an entry of a user component
\* whose metrics[0] has the shape of the extractor's own template decodes to
\* details that hold every key the extractor's rows read: the call does not
\* abort at such an entry, and once past it has one row per data point of it.
C18_TemplateShapesGiveAllFields ==
  \A c \in CallIds :
    LET f == frame[c]
        ts == f.timeseries
    IN  f.kind \in ExtractorKinds
        => \A j \in 1..Len(ts) :
             Templated(f.kind, ts[j])
             => /\ parse_metric_details(ts[j].source).ok
                /\ DetailKeys[f.kind] \subseteq
                     DOMAIN parse_metric_details(ts[j].source).value
                /\ ~(f.pc = "failed" /\ f.idx = j)
                /\ j < f.idx
                     => Cardinality({n \in 1..Len(f.origin) : f.origin[n] = j})
                          = Len(ts[j].data)

\* C18's cases: get_receive_counts has returned a row with the source task
\* read from receive-count/c/2/s; a call has aborted with KeyError at an
\* entry whose metrics[0] has another shape than its template.
C18_Witness ==
  \E c \in CallIds :
    LET f == frame[c]
    IN  /\ f.kind = "receive_counts"
        /\ f.pc = "done"
        /\ Len(f.result[1].rows) >= 1
        /\ f.result[1].rows[1].source_task = 2
        /\ f.result[1].rows[1].source_component = <<"c">>
        /\ f.result[1].rows[1].stream = <<"s">>

C18_WitnessOtherShape ==
  \E c \in CallIds :
    LET f == frame[c]
    IN  /\ f.kind = "service_times"
        /\ f.pc = "failed"
        /\ f.error = "KeyError"
        /\ f.idx >= 1
        /\ ~HasTemplateShape(f.kind, f.timeseries[f.idx].source.metrics[1])

ModelArgAllowed(h) ==
  \/ h.args.model = PyNone
  \/ /\ h.args.model.type = "list"
     /\ \A i \in 1..Len(h.args.model.items) :
          h.args.model.items[i] \in h.models \cup {"all"}

\* C20: a request to HeronCurrent.get whose topology check succeeded, with
\* the model argument absent, "all" or a list of registered names, ends with
\* the dict of the topology id and the checked reference; a request whose
\* check failed ends with that failure and has looked up no model.
C20_GetReturnsCheckedReference ==
  (handler.pc \in {"returned", "failed"} /\ handler.checked # None)
  => /\ (handler.checked[1].ok /\ ModelArgAllowed(handler))
          => /\ handler.pc = "returned"
             /\ handler.result =
                  Some([topology_id |-> handler.topology_id,
                        topology_ref |-> handler.checked[1].value])
     /\ ~handler.checked[1].ok
          => /\ handler.pc = "failed"
             /\ handler.error = handler.checked[1].exc
             /\ handler.lookups = <<>>

====
